---- MODULE Spec2Model ----
(***************************************************************************)
(* A model of the resolution / lifecycle engine of inject/inject.py: the   *)
(* Injector registry, the three injecting wrappers (factory function,      *)
(* generator, class), the Injected descriptor, and the callers' operations *)
(* register, get_instance, finalize and finalize_all.                      *)
(*                                                                         *)
(* The program is single threaded and every operation runs to completion,  *)
(* so one action is one whole call; the recursion of get_instance through  *)
(* the dependencies is a RECURSIVE operator over a record holding the      *)
(* mutable attributes of the factory objects.                              *)
(***************************************************************************)
EXTENDS Integers, Sequences, FiniteSets, TLC

(***************************************************************************)
(* Values.  An instance is an object built by factory `of`; n is its       *)
(* identity among the objects of that factory and `args` are references    *)
(* to the argument values it was built from.  A factory may also return a  *)
(* falsy value that is not None (0, "", []) or None itself.  Absent marks  *)
(* an attribute that is not set on the object (hasattr is false).          *)
(***************************************************************************)
NoneVal == [k |-> "None", of |-> "", n |-> 0, args |-> <<>>]

ZeroVal == [k |-> "zero", of |-> "", n |-> 0, args |-> <<>>]

Absent == [k |-> "absent", of |-> "", n |-> 0, args |-> <<>>]

\* The generator object a call of generator function f returns, not yet advanced.
GeneratorObject(f) == [k |-> "generator", of |-> f, n |-> 0, args |-> <<>>]

\* A reference to a value: the value without what it refers to in turn.
Ref(v) == [k |-> v.k, of |-> v.of, n |-> v.n, args |-> <<>>]

Obj(f, n, args) ==
    [k |-> "obj", of |-> f, n |-> n, args |-> [i \in 1..Len(args) |-> Ref(args[i])]]

\* Python truthiness of a value, as tested by `if not provider._instance`.
Truthy(v) == v.k = "obj"

\* `x is None`, with getattr's default None standing in for a missing attribute.
IsNone(v) == v.k \in {"None", "absent"}

(***************************************************************************)
(* The factories a program declares.  Each is decorated under one service  *)
(* name; its parameter names are its dependencies (inspect.signature).     *)
(*   kind      "factory" (plain function), "generator" or "class"          *)
(*   ret       what the function returns / the generator yields first      *)
(*   teardown  whether a _finalize operation is exposed                    *)
(*   yields    number of yield statements of a generator                   *)
(*   delegates the Injected descriptors of a class, in class-body order    *)
(*   base      the registered class a class inherits from, or NoBase       *)
(*   inplace   the decorator's inplace option                              *)
(***************************************************************************)
NoBase == "<no base>"

NoEntry == "<no entry>"

Names == {"a", "b", "c"}

Def(name, kind, params, ret, teardown, yields, delegates) ==
    [name |-> name, kind |-> kind, params |-> params, ret |-> ret,
     teardown |-> teardown, yields |-> yields, delegates |-> delegates,
     base |-> NoBase, inplace |-> FALSE]

\* The same class, declared as a subclass of the class of factory `base`.
Sub(d, base) == [d EXCEPT !.base = base]

\* The same factory decorated with inplace=True.
Inplace(d) == [d EXCEPT !.inplace = TRUE]

Eager(name) == [name |-> name, lazy |-> FALSE]

Lazy(name) == [name |-> name, lazy |-> TRUE]

FactoryDefs ==
    [a1 |-> Def("a", "class",     <<"b">>, "obj",  TRUE,  0, <<Eager("c")>>),
     a3 |-> Def("a", "factory",   <<"b">>, "obj",  TRUE,  0, <<>>),
     a4 |-> Def("a", "class",     <<"b">>, "obj",  TRUE,  0, <<>>),
     a5 |-> Def("a", "factory",   <<"b", "a">>, "obj", FALSE, 0, <<>>),
     a6 |-> Def("a", "class",     <<>>,    "obj",  TRUE,  0, <<Eager("b")>>),
     a7 |-> Def("a", "class",     <<>>,    "obj",  TRUE,  0, <<Lazy("c"), Eager("b")>>),
     a8 |-> Def("a", "factory",   <<"b", "c">>, "obj", TRUE, 0, <<>>),
     a9 |-> Sub(Def("a", "class", <<>>,    "obj",  TRUE,  0, <<>>), "c8"),
     b1 |-> Def("b", "generator", <<"c">>, "obj",  TRUE,  1, <<>>),
     b2 |-> Def("b", "generator", <<>>,    "obj",  TRUE,  2, <<>>),
     b3 |-> Def("b", "generator", <<>>,    "zero", TRUE,  1, <<>>),
     b4 |-> Def("b", "generator", <<>>,    "obj",  TRUE,  1, <<>>),
     b6 |-> Def("b", "class",     <<>>,    "obj",  TRUE,  0, <<Eager("a")>>),
     b7 |-> Def("b", "factory",   <<"c">>, "obj",  TRUE,  0, <<>>),
     b5 |-> Inplace(Def("b", "class", <<>>, "obj", TRUE,  0, <<>>)),
     c1 |-> Def("c", "factory",   <<>>,    "zero", TRUE,  0, <<>>),
     c2 |-> Def("c", "factory",   <<"a">>, "obj",  TRUE,  0, <<>>),
     c3 |-> Def("c", "factory",   <<>>,    "obj",  TRUE,  0, <<>>),
     c4 |-> Def("c", "factory",   <<>>,    "None", TRUE,  0, <<>>),
     c5 |-> Def("c", "factory",   <<"c">>, "None", FALSE, 0, <<>>),
     c6 |-> Inplace(Def("c", "factory", <<>>, "zero", TRUE, 0, <<>>)),
     c7 |-> Inplace(Def("c", "factory", <<>>, "obj",  TRUE, 0, <<>>)),
     c8 |-> Def("c", "class",     <<>>,    "obj",  TRUE,  0, <<>>)]

Factories == DOMAIN FactoryDefs

\* The programs explored: each is the set of factories one application declares.
Programs ==
    {{"a4", "b1", "c2", "c3"},
     {"a1", "b2", "c3", "c5"},
     {"a3", "b2", "b3", "c1"},
     {"a3", "b1", "c3", "c4"},
     {"a5", "b2"},
     {"a5", "b3"},
     {"a6", "b6"},
     {"a7", "b4", "c1", "c3"},
     {"a8", "b1", "c7"},
     {"a8", "b1", "c6"},
     {"a8", "b5", "c6", "c7"},
     {"a9", "b4", "c8"}}

VARIABLES
    program,        \* the factories the application declares
    inject_table,   \* Injector.inject_table: service name -> registered factory
    order,          \* the insertion order of inject_table's keys
    inst,           \* provider._instance / clazz._instance
    busy,           \* factory_func._instance_is_being_created is set
    gen,            \* provider._generator: 0 is None, p is "suspended at yield p"
    slots,          \* the Injected slots in the __dict__ of the cached instance
    ran,            \* runs of each factory body made by the caller's last operation
    torn,           \* runs of each teardown made by the caller's last operation
    constructed,    \* the factories whose body the last operation ran, in that order
    finalized,      \* the factories whose finalize the caller's last operation invoked
    last,           \* the caller's last operation, how it ended, what it returned
    failed,         \* the handles whose latest get_instance raised an injection error
    threads,        \* per thread: the frames of its running get_instance, its outcome
    raced           \* the factories two threads have found unbuilt at the same time

vars == <<program, inject_table, order, inst, busy, gen, slots, ran, torn, constructed,
          finalized, last, failed, threads, raced>>

\* The threads of the application; the caller of the operations below is thread 1.
Threads == {1, 2}

\* A thread that is in no call of the container and has made none.
Idle == [stack |-> <<>>, f |-> "", res |-> "idle", val |-> NoneVal, calls |-> 0]

(***************************************************************************)
(* The mutable attributes of the factory objects, as one record, so that   *)
(* a call can thread them through its recursion.                           *)
(***************************************************************************)
Attrs == [inst |-> inst, busy |-> busy, gen |-> gen, slots |-> slots,
          ran |-> [f \in Factories |-> 0], torn |-> [f \in Factories |-> 0],
          seq |-> <<>>, fin |-> {}]

\* The outcome of a call: the attributes it leaves, how it ended, its value.
Return(s, v) == [s |-> s, res |-> "ok", val |-> v]

Raise(s, error) == [s |-> s, res |-> error, val |-> NoneVal]

NoSlot == [k |-> "unset", of |-> "", val |-> NoneVal]

FactorySlot(f) == [k |-> "factory", of |-> f, val |-> NoneVal]

InstanceSlot(v) == [k |-> "instance", of |-> "", val |-> v]

\* The names of the Injected descriptors in the body of class f.
DelegateNames(f) ==
    {FactoryDefs[f].delegates[i].name : i \in 1..Len(FactoryDefs[f].delegates)}

EmptySlots(f) == [n \in DelegateNames(f) |-> NoSlot]

(***************************************************************************)
(* Attribute lookup on a class follows the inheritance chain: getattr and  *)
(* hasattr see an attribute set on a base class; assignment and del act    *)
(* on the class itself.  Functions have no base.                           *)
(***************************************************************************)
RECURSIVE InstanceAttr(_, _)
InstanceAttr(s, f) ==
    IF s.inst[f] # Absent THEN s.inst[f]
    ELSE IF FactoryDefs[f].base # NoBase THEN InstanceAttr(s, FactoryDefs[f].base)
    ELSE Absent

RECURSIVE HasBusy(_, _)
HasBusy(s, f) ==
    \/ s.busy[f]
    \/ FactoryDefs[f].base # NoBase /\ HasBusy(s, FactoryDefs[f].base)

\* The identities of the objects of factory f that value v refers to.
RECURSIVE Ids(_, _)
Ids(v, f) ==
    IF v.k # "obj" THEN {}
    ELSE (IF v.of = f THEN {v.n} ELSE {})
         \cup UNION {Ids(v.args[i], f) : i \in 1..Len(v.args)}

\* The identities of f's objects still referred to: by a cache, by a slot of a
\* cached instance, or by the caller, who holds what the last call returned.
Live(s, f) ==
    UNION ({Ids(s.inst[g], f) : g \in Factories}
           \cup UNION {{Ids(s.slots[g][n].val, f) : n \in DOMAIN s.slots[g]} :
                          g \in Factories}
           \cup {Ids(last.val, f)})

\* A new object is none of the live ones.
Fresh(s, f) ==
    CHOOSE n \in 1..(Cardinality(Live(s, f)) + 1) :
        /\ n \notin Live(s, f)
        /\ \A m \in 1..(n - 1) : m \in Live(s, f)

\* What the factory call produces: factory_func(*dependencies), clazz(*dependencies)
\* or the first value yielded by generator(*dependencies).
Produce(s, f, args) ==
    CASE FactoryDefs[f].ret = "obj"  -> Obj(f, Fresh(s, f), args)
      [] FactoryDefs[f].ret = "zero" -> ZeroVal
      [] OTHER                       -> NoneVal

\* Injector.get: the registered factory whose get_instance is handed out.
Registered(name) == inject_table[name] # NoEntry

RECURSIVE get_instance(_, _), get_dependencies(_, _), ResolveParameters(_, _, _, _),
          inject_delegates(_, _), InitDelegates(_, _, _)

\* A faulty variant: the parameters are resolved from the last to the first.
RECURSIVE ResolveParameters_backwards(_, _, _, _)
ResolveParameters_backwards(s, f, i, deps) ==
    IF i > Len(FactoryDefs[f].params) THEN Return(s, deps)
    ELSE LET par == FactoryDefs[f].params[Len(FactoryDefs[f].params) - i + 1] IN
         IF ~Registered(par) THEN Raise(s, "NotFound")
         ELSE LET Resolved(r) ==
                      IF r.res # "ok" THEN r
                      ELSE ResolveParameters_backwards(r.s, f, i + 1, <<r.val>> \o deps)
              IN  Resolved(get_instance(s, inject_table[par]))

\* The loop of _get_dependencies over signature.parameters, from parameter i on.
ResolveParameters(s, f, i, deps) ==
    IF i > Len(FactoryDefs[f].params) THEN Return(s, deps)
    ELSE LET par == FactoryDefs[f].params[i] IN
         IF ~Registered(par) THEN Raise(s, "NotFound")
         ELSE LET Resolved(r) ==
                      IF r.res # "ok" THEN r
                      ELSE ResolveParameters(r.s, f, i + 1, Append(deps, r.val))
              IN  Resolved(get_instance(s, inject_table[par]))

\* A faulty variant: the cycle check returns the (empty) list instead of raising.
get_dependencies_returns_on_cycle(s, f) ==
    IF HasBusy(s, f) THEN Return(s, <<>>)
    ELSE LET Looped(r) == IF r.res # "ok" THEN r
                          ELSE Return([r.s EXCEPT !.busy[f] = FALSE], r.val)
         IN  Looped(ResolveParameters([s EXCEPT !.busy[f] = TRUE], f, 1, <<>>))

\* The flag is deleted only after the loop has completed.
get_dependencies(s, f) ==
    IF HasBusy(s, f) THEN Raise(s, "Recursive")
    ELSE LET Looped(r) == IF r.res # "ok" THEN r
                          ELSE Return([r.s EXCEPT !.busy[f] = FALSE], r.val)
         IN  Looped(ResolveParameters([s EXCEPT !.busy[f] = TRUE], f, 1, <<>>))

\* Injected.init for the delegates of class f, from delegate i on.
InitDelegates(s, f, i) ==
    IF i > Len(FactoryDefs[f].delegates) THEN Return(s, NoneVal)
    ELSE LET d == FactoryDefs[f].delegates[i] IN
         IF ~Registered(d.name) THEN Raise(s, "NotFound")
         ELSE IF d.lazy
              THEN InitDelegates(
                       [s EXCEPT !.slots[f][d.name] = FactorySlot(inject_table[d.name])],
                       f, i + 1)
              ELSE LET Resolved(r) ==
                           IF r.res # "ok" THEN r
                           ELSE InitDelegates(
                                    [r.s EXCEPT !.slots[f][d.name] = InstanceSlot(r.val)],
                                    f, i + 1)
                   IN  Resolved(get_instance(s, inject_table[d.name]))

inject_delegates(s, f) ==
    IF HasBusy(s, f) THEN Raise(s, "Recursive")
    ELSE LET Looped(r) == IF r.res # "ok" THEN r
                          ELSE Return([r.s EXCEPT !.busy[f] = FALSE], NoneVal)
         IN  Looped(InitDelegates([s EXCEPT !.busy[f] = TRUE], f, 1))

\* provider() of a plain factory function.
FactoryProvider(s, f) ==
    IF ~Truthy(s.inst[f])
    THEN LET Cached(t, v) == Return([t EXCEPT !.ran[f] = @ + 1, !.seq = Append(@, f),
                                              !.inst[f] = v], v)
             Called(d) == IF d.res # "ok" THEN d
                          ELSE Cached(d.s, Produce(d.s, f, d.val))
         IN  Called(get_dependencies(s, f))
    ELSE Return(s, s.inst[f])

\* provider() of a generator function: a new generator, advanced to its first yield.
GeneratorProvider(s, f) ==
    IF ~Truthy(s.inst[f])
    THEN LET Cached(t, v) == Return([t EXCEPT !.ran[f] = @ + 1, !.seq = Append(@, f),
                                              !.gen[f] = 1, !.inst[f] = v], v)
             Called(d) == IF d.res # "ok" THEN d
                          ELSE Cached(d.s, Produce(d.s, f, d.val))
         IN  Called(get_dependencies(s, f))
    ELSE Return(s, s.inst[f])

\* Provider.__new__ of a class: the instance is cached before its delegates are
\* initialised.
ClassProvider(s, f) ==
    IF IsNone(InstanceAttr(s, f))
    THEN LET Initialised(j) == IF j.res # "ok" THEN j
                            ELSE Return(j.s, InstanceAttr(j.s, f))
             Cached(t, v) == Initialised(inject_delegates(
                                 [t EXCEPT !.ran[f] = @ + 1, !.seq = Append(@, f),
                                           !.inst[f] = v], f))
             Called(d) == IF d.res # "ok" THEN d
                          ELSE Cached(d.s, Produce(d.s, f, d.val))
         IN  Called(get_dependencies(s, f))
    ELSE Return(s, InstanceAttr(s, f))

\* result.get_instance of the wrapper _get_wrapper chose for the factory.
get_instance(s, f) ==
    CASE FactoryDefs[f].kind = "class"     -> ClassProvider(s, f)
      [] FactoryDefs[f].kind = "generator" -> GeneratorProvider(s, f)
      [] OTHER                             -> FactoryProvider(s, f)

\* Injected.__get__ on the instance of class `owner`: the eager slot's value, or a
\* call of the factory the lazy slot holds; a slot that is not in __dict__ is a
\* KeyError.
read_property(s, owner, n) ==
    LET slot == s.slots[owner][n] IN
    CASE slot.k = "instance" -> Return(s, slot.val)
      [] slot.k = "factory"  -> get_instance(s, slot.of)
      [] OTHER               -> Raise(s, "KeyError")

\* A call of the name the decorator returned: the provider with inplace set, the
\* undecorated factory otherwise (a generator function then returns a generator
\* that has not run yet).
call(s, f) ==
    IF FactoryDefs[f].inplace THEN get_instance(s, f)
    ELSE IF FactoryDefs[f].kind = "generator" THEN Return(s, GeneratorObject(f))
    ELSE LET v == Produce(s, f, <<>>)
         IN  Return([s EXCEPT !.ran[f] = @ + 1, !.seq = Append(@, f)], v)

\* A faulty variant: the teardown runs but the cache is not cleared.
FactoryFinalizer_keeps_cache(s, f) ==
    IF s.inst[f] # NoneVal
    THEN Return([s EXCEPT !.torn[f] = @ + (IF FactoryDefs[f].teardown THEN 1 ELSE 0)],
                NoneVal)
    ELSE Return(s, NoneVal)

\* finalizer() of a plain factory function.
FactoryFinalizer(s, f) ==
    IF s.inst[f] # NoneVal
    THEN Return([s EXCEPT !.torn[f] = @ + (IF FactoryDefs[f].teardown THEN 1 ELSE 0),
                          !.inst[f] = NoneVal], NoneVal)
    ELSE Return(s, NoneVal)

\* A faulty variant: a further yield is not reported.
GeneratorFinalizer_ignores_yield(s, f) ==
    IF s.inst[f] # NoneVal
    THEN IF s.gen[f] # 0
         THEN IF s.gen[f] < FactoryDefs[f].yields
              THEN Return([s EXCEPT !.torn[f] = @ + 1, !.gen[f] = @ + 1], NoneVal)
              ELSE Return([s EXCEPT !.torn[f] = @ + 1, !.gen[f] = 0, !.inst[f] = NoneVal],
                          NoneVal)
         ELSE Return([s EXCEPT !.inst[f] = NoneVal], NoneVal)
    ELSE Return(s, NoneVal)

\* finalizer() of a generator function: the generator is resumed; if it stops at
\* another yield the error leaves the finalizer before anything is cleared.
GeneratorFinalizer(s, f) ==
    IF s.inst[f] # NoneVal
    THEN IF s.gen[f] # 0
         THEN IF s.gen[f] < FactoryDefs[f].yields
              THEN Raise([s EXCEPT !.torn[f] = @ + 1, !.gen[f] = @ + 1], "MultipleYields")
              ELSE Return([s EXCEPT !.torn[f] = @ + 1, !.gen[f] = 0, !.inst[f] = NoneVal],
                          NoneVal)
         ELSE Return([s EXCEPT !.inst[f] = NoneVal], NoneVal)
    ELSE Return(s, NoneVal)

\* _reset_delegates: Injected.reset pops the slots of clazz's delegates from the
\* __dict__ of the instance, which is the cached instance of factory `owner`.
reset_delegates(s, f, owner) ==
    [s EXCEPT !.slots[owner] =
        [n \in DOMAIN @ |-> IF n \in DelegateNames(f) THEN NoSlot ELSE @[n]]]

\* finalizer() of a class: `del clazz._instance` needs the attribute on clazz itself.
ClassFinalizer(s, f) ==
    LET v == InstanceAttr(s, f) IN
    IF ~IsNone(v)
    THEN LET s1 == [s EXCEPT !.torn[v.of] =
                        @ + (IF FactoryDefs[v.of].teardown THEN 1 ELSE 0)]
             s2 == reset_delegates(s1, f, v.of)
         IN  IF s2.inst[f] = Absent THEN Raise(s2, "AttributeError")
             ELSE Return([s2 EXCEPT !.inst[f] = Absent], NoneVal)
    ELSE Return(s, NoneVal)

\* result.finalize of the wrapper _get_wrapper chose for the factory.
finalize(s, f) ==
    LET s1 == [s EXCEPT !.fin = @ \cup {f}] IN
    CASE FactoryDefs[f].kind = "class"     -> ClassFinalizer(s1, f)
      [] FactoryDefs[f].kind = "generator" -> GeneratorFinalizer(s1, f)
      [] OTHER                             -> FactoryFinalizer(s1, f)

\* The loop of finalize_all over the entries of keys, from entry i on; an error
\* raised by one finalize leaves the loop.
RECURSIVE FinalizeEach(_, _, _)
FinalizeEach(s, keys, i) ==
    IF i > Len(keys) THEN Return(s, NoneVal)
    ELSE LET Finalized(r) == IF r.res # "ok" THEN r ELSE FinalizeEach(r.s, keys, i + 1)
         IN  Finalized(finalize(s, inject_table[keys[i]]))

\* Injector.finalize_all: inject_table.values() come in insertion order.
finalize_all(s) == FinalizeEach(s, order, 1)

\* What the caller saw of an operation: the operation and the handle it was called
\* on, how it ended and what it returned; and of the state it was called in: the
\* cache of the handle (pre), whether the handle's previous get_instance had raised
\* (retry), and the registered factories whose cache held something (built).
Seen(op, f, res, val, pre, retry, built) ==
    [op |-> op, f |-> f, res |-> res, val |-> val, pre |-> pre, retry |-> retry,
     built |-> built]

NoOp == Seen("none", "", "ok", NoneVal, NoneVal, FALSE, {})

\* What the caller saw of a read of property n of the instance of class f, with
\* the slot the property had; pre is the value in an eager slot, or the cache of
\* the factory a lazy slot holds.
SeenRead(f, n, res, val, slot) ==
    [op |-> "read", f |-> f, prop |-> n, res |-> res, val |-> val,
     pre |-> IF slot.k = "factory" THEN InstanceAttr(Attrs, slot.of) ELSE slot.val,
     slot |-> slot, retry |-> FALSE, built |-> {}]

(***************************************************************************)
(* The state after `inject = Injector()` and the definition of the         *)
(* factories, none decorated yet.                                          *)
(***************************************************************************)
Init ==
    /\ program \in Programs
    /\ inject_table = [n \in Names |-> NoEntry]
    /\ order = <<>>
    /\ inst = [f \in Factories |-> IF FactoryDefs[f].kind = "class" THEN Absent ELSE NoneVal]
    /\ busy = [f \in Factories |-> FALSE]
    /\ gen = [f \in Factories |-> 0]
    /\ ran = [f \in Factories |-> 0]
    /\ slots = [f \in Factories |-> EmptySlots(f)]
    /\ torn = [f \in Factories |-> 0]
    /\ constructed = <<>>
    /\ finalized = {}
    /\ last = NoOp
    /\ failed = {}
    /\ threads = [t \in Threads |-> Idle]
    /\ raced = {}

\* The attributes a call leaves become the state.
Commit(r) ==
    /\ inst' = r.s.inst
    /\ busy' = r.s.busy
    /\ gen' = r.s.gen
    /\ slots' = r.s.slots
    /\ ran' = r.s.ran
    /\ torn' = r.s.torn
    /\ constructed' = r.s.seq
    /\ finalized' = r.s.fin

\* The handle of a factory is in use while the factory is the registered one.
IsRegistered(f) == inject_table[FactoryDefs[f].name] = f

\* The cache of the factory holds something: the finalizers' `is not None`.
Built(f) == ~IsNone(InstanceAttr(Attrs, f))

(***************************************************************************)
(* inject(factory): _get_wrapper, then wrap.  A function gets a new        *)
(* provider, whose _instance and _generator are None; a class keeps its    *)
(* own attributes.  A key already in the table keeps its place.  (A        *)
(* function is not decorated again while a lazy slot still holds the       *)
(* provider of its earlier decoration.)                                    *)
(***************************************************************************)
Register(f) ==
    LET name == FactoryDefs[f].name IN
    /\ f \in program
    /\ ~IsRegistered(f)
    /\ FactoryDefs[f].kind # "class"
       => \A g \in Factories : \A n \in DOMAIN slots[g] : slots[g][n] # FactorySlot(f)
    /\ inject_table' = [inject_table EXCEPT ![name] = f]
    /\ order' = IF Registered(name) THEN order ELSE Append(order, name)
    /\ inst' = IF FactoryDefs[f].kind = "class" THEN inst ELSE [inst EXCEPT ![f] = NoneVal]
    /\ gen' = [gen EXCEPT ![f] = 0]
    /\ ran' = [g \in Factories |-> 0]
    /\ torn' = [g \in Factories |-> 0]
    /\ constructed' = <<>>
    /\ finalized' = {}
    /\ failed' = failed \ {f}
    /\ last' = Seen("register", f, "ok", NoneVal, NoneVal, FALSE, {})
    /\ UNCHANGED <<program, busy, slots, threads, raced>>

\* handle.get_instance()
GetInstance(f) ==
    /\ IsRegistered(f)
    /\ LET Done(r) ==
               /\ Commit(r)
               /\ last' = Seen("get_instance", f, r.res, r.val, InstanceAttr(Attrs, f),
                                f \in failed, {})
               /\ failed' = IF r.res = "ok" THEN failed \ {f} ELSE failed \cup {f}
       IN  Done(get_instance(Attrs, f))
    /\ UNCHANGED <<program, inject_table, order, threads, raced>>

\* handle.finalize()
Finalize(f) ==
    /\ IsRegistered(f)
    /\ LET Done(r) ==
               /\ Commit(r)
               /\ last' = Seen("finalize", f, r.res, NoneVal, InstanceAttr(Attrs, f),
                                FALSE, {})
       IN  Done(finalize(Attrs, f))
    /\ UNCHANGED <<program, inject_table, order, failed, threads, raced>>

\* inject.finalize_all()
FinalizeAll ==
    /\ LET Done(r) ==
               /\ Commit(r)
               /\ last' = Seen("finalize_all", "", r.res, NoneVal, NoneVal, FALSE,
                                {f \in Factories : IsRegistered(f) /\ Built(f)})
       IN  Done(finalize_all(Attrs))
    /\ UNCHANGED <<program, inject_table, order, failed, threads, raced>>

\* handle.get_instance().n : a read of property n of the cached instance
Read(f, n) ==
    /\ IsRegistered(f)
    /\ FactoryDefs[f].kind = "class"
    /\ n \in DelegateNames(f)
    /\ Built(f)
    /\ LET Done(owner, r) ==
               /\ Commit(r)
               /\ last' = SeenRead(f, n, r.res, r.val, slots[owner][n])
           Get(owner) == Done(owner, read_property(Attrs, owner, n))
       IN  Get(InstanceAttr(Attrs, f).of)
    /\ UNCHANGED <<program, inject_table, order, failed, threads, raced>>

\* handle() : a direct call of the decorated name, for a factory without parameters
Call(f) ==
    /\ IsRegistered(f)
    /\ FactoryDefs[f].params = <<>>
    /\ LET Done(r) ==
               /\ Commit(r)
               /\ last' = Seen("call", f, r.res, r.val, InstanceAttr(Attrs, f), FALSE, {})
       IN  Done(call(Attrs, f))
    /\ UNCHANGED <<program, inject_table, order, failed, threads, raced>>

Next ==
    \/ \E f \in Factories : Register(f)
    \/ \E f \in Factories : GetInstance(f)
    \/ \E f \in Factories : Finalize(f)
    \/ FinalizeAll
    \/ \E f \in Factories : \E n \in Names : Read(f, n)
    \/ \E f \in Factories : Call(f)

Spec == Init /\ [][Next]_vars

(***************************************************************************)
(* The dependency graph the registry holds: an edge from a service name to *)
(* each parameter name of the factory registered under it.                 *)
(***************************************************************************)
ParamNames(n) ==
    IF Registered(n)
    THEN {FactoryDefs[inject_table[n]].params[i] :
             i \in 1..Len(FactoryDefs[inject_table[n]].params)}
    ELSE {}

\* The names an eager Injected descriptor of the registered class resolves.
EagerNames(n) ==
    IF Registered(n)
    THEN {FactoryDefs[inject_table[n]].delegates[i].name :
             i \in {j \in 1..Len(FactoryDefs[inject_table[n]].delegates) :
                        ~FactoryDefs[inject_table[n]].delegates[j].lazy}}
    ELSE {}

RECURSIVE ParamClosure(_)
ParamClosure(S) ==
    LET T == S \cup UNION {ParamNames(m) : m \in S}
    IN  IF T = S THEN S ELSE ParamClosure(T)

\* The names reachable from n through one or more parameter edges.
Reach(n) == ParamClosure(ParamNames(n))

OnCycle(n) == n \in Reach(n)

\* The members of the cycles through n.
CycleOf(n) == {m \in Reach(n) : n \in Reach(m)}

RECURSIVE DependencyClosure(_)
DependencyClosure(S) ==
    LET T == S \cup UNION {ParamNames(m) \cup EagerNames(m) : m \in S}
    IN  IF T = S THEN S ELSE DependencyClosure(T)

\* The names a lazy Injected descriptor of the registered class looks up.
LazyNames(n) ==
    IF Registered(n)
    THEN {FactoryDefs[inject_table[n]].delegates[i].name :
             i \in {j \in 1..Len(FactoryDefs[inject_table[n]].delegates) :
                        FactoryDefs[inject_table[n]].delegates[j].lazy}}
    ELSE {}

\* Everything a construction of n resolves is registered and on no cycle, and
\* everything it looks up without resolving it is registered.
Resolvable(n) ==
    \A m \in DependencyClosure({n}) :
        /\ Registered(m) /\ ~OnCycle(m)
        /\ \A l \in LazyNames(m) : Registered(l)

InjectionErrors == {"NotFound", "Recursive"}

(***************************************************************************)
(* C1.  Singleton caching of a plain factory, whatever it returns: a       *)
(* get_instance that finds a cached value runs the factory no more and     *)
(* returns that value, and after a get_instance has returned, the next one *)
(* runs the factory no more and returns the same value.                    *)
(* Fails: the provider tests the truth of the cache, not `is not None`.    *)
(***************************************************************************)
C1_SingletonCaching ==
    \A f \in Factories :
        (/\ last.op = "get_instance" /\ last.f = f /\ last.res = "ok"
         /\ FactoryDefs[f].kind = "factory")
        => /\ last.pre # NoneVal => (ran[f] = 0 /\ last.val = last.pre)
           /\ LET r == get_instance(Attrs, f)
              IN  r.res = "ok" /\ r.s.ran[f] = 0 /\ r.val = last.val

C3_BusyFlagCleared ==
    \A f \in Factories : IsRegistered(f) => ~HasBusy(Attrs, f)

(***************************************************************************)
(* C4.  Retry after fix: a handle whose get_instance raised NotFoundError  *)
(* or RecursiveInjectionError resolves once the registry is correct.       *)
(* Fails: the flag left by the failed attempt raises                       *)
(* RecursiveInjectionError.                                                *)
(***************************************************************************)
C4_RetryAfterFix ==
    \A f \in Factories :
        (/\ last.op = "get_instance" /\ last.f = f /\ last.retry
         /\ Resolvable(FactoryDefs[f].name))
        => last.res = "ok"

(***************************************************************************)
(* C5.  After a get_instance that raised RecursiveInjectionError, every    *)
(* registered service whose dependencies are registered and on no cycle    *)
(* still resolves.  Fails on the flags the failed attempts left (C3).      *)
(***************************************************************************)
C5_NonCyclicStillResolves ==
    (last.op = "get_instance" /\ last.res = "Recursive")
    => \A f \in Factories :
          (IsRegistered(f) /\ Resolvable(FactoryDefs[f].name))
          => get_instance(Attrs, f).res = "ok"

(***************************************************************************)
(* C6.  A get_instance on an unbuilt entry that raises NotFoundError or    *)
(* RecursiveInjectionError leaves the entry unbuilt, and a later           *)
(* get_instance that returns has run the factory itself.                   *)
(* Fails: a class caches its instance before its delegates are resolved.   *)
(***************************************************************************)
C6_FailureLeavesUnbuilt ==
    \A f \in Factories :
        (/\ last.op = "get_instance" /\ last.f = f
         /\ IsNone(last.pre) /\ last.res \in InjectionErrors)
        => /\ ~Built(f)
           /\ LET r == get_instance(Attrs, f)
              IN  r.res = "ok" => r.s.ran[f] = 1

(***************************************************************************)
(* C7.  Round trip of a two-phase factory (a generator with one yield):    *)
(* finalize on a built entry runs the teardown half once and clears the    *)
(* cache; get_instance runs the setup half once when the entry is unbuilt  *)
(* and not at all when it is built.                                        *)
(* Fails for a generator that yields a falsy value: the provider tests     *)
(* the truth of the cache (as in C1) and sets up again on every call.      *)
(***************************************************************************)
C7_TwoPhaseRoundTrip ==
    \A f \in Factories :
        (FactoryDefs[f].kind = "generator" /\ FactoryDefs[f].yields = 1 /\ last.f = f)
        => /\ (last.op = "finalize" /\ last.pre # NoneVal)
              => (last.res = "ok" /\ torn[f] = 1 /\ ~Built(f))
           /\ (last.op = "get_instance" /\ last.res = "ok")
              => ran[f] = (IF last.pre = NoneVal THEN 1 ELSE 0)

(***************************************************************************)
(* C8.  A generator with a second yield: get_instance never raises         *)
(* MultipleYieldsError and, when it constructs, returns the first yielded  *)
(* value with the generator suspended at its first yield; a finalize       *)
(* raises MultipleYieldsError exactly when it has resumed the generator    *)
(* and the generator stopped at a further yield.                           *)
(***************************************************************************)
C8_MultipleYieldsOnlyOnFinalize ==
    /\ last.op = "get_instance" => last.res # "MultipleYields"
    /\ last.res = "MultipleYields"
       => \E f \in finalized :
             FactoryDefs[f].yields > 1 /\ torn[f] = 1 /\ gen[f] > 1
    /\ \A f \in Factories :
          (FactoryDefs[f].kind = "generator" /\ FactoryDefs[f].yields > 1 /\ last.f = f)
          => /\ (last.op = "get_instance" /\ FactoryDefs[f].params = <<>>)
                => last.res = "ok"
             /\ (last.op = "get_instance" /\ last.res = "ok" /\ last.pre = NoneVal)
                => (ran[f] = 1 /\ gen[f] = 1 /\ last.val = inst[f] /\ Truthy(last.val))
             /\ last.op = "finalize"
                => (last.res = "MultipleYields" <=> (torn[f] = 1 /\ gen[f] # 0))

\* A finalize of the built two-yield generator has raised.
C8_Witness ==
    /\ last.op = "finalize" /\ last.res = "MultipleYields"
    /\ FactoryDefs[last.f].yields = 2 /\ Truthy(last.pre) /\ gen[last.f] = 2

(***************************************************************************)
(* C9.  finalize_all, as claimed: in any state it raises no error, leaves  *)
(* every entry unbuilt, and a second call runs no teardown.                *)
(* Fails when a built generator has a second yield: the first call raises  *)
(* MultipleYieldsError.                                                    *)
(***************************************************************************)
C9_FinalizeAllAlwaysClean ==
    last.op = "finalize_all"
    => /\ last.res = "ok"
       /\ \A f \in Factories : IsRegistered(f) => ~Built(f)
       /\ LET r == finalize_all(Attrs)
          IN  r.res = "ok" /\ r.s.inst = inst /\ \A f \in Factories : r.s.torn[f] = 0

\* A built generator that will stop at a further yield when it is resumed.
PendingYield(f) ==
    /\ FactoryDefs[f].kind = "generator"
    /\ inst[f] # NoneVal
    /\ gen[f] # 0 /\ gen[f] < FactoryDefs[f].yields

\* The orders in which the entries of the table can be visited.
VisitingOrders ==
    {p \in [1..Len(order) -> Names] :
        \A i \in 1..Len(order) : \E j \in 1..Len(order) : p[j] = order[i]}

(***************************************************************************)
(* C9, for the states in which no built generator has a further yield     *)
(* pending (where MultipleYieldsError is the error to expect): finalize_all *)
(* raises no error and leaves every entry unbuilt, whatever the visiting   *)
(* order (the result is that of the insertion order); a second call, in    *)
(* any order, raises no error, runs no teardown and changes nothing.       *)
(* Fails when a registered class is a subclass of a registered class that  *)
(* is built while it is not, and is visited first: its finalizer finds the *)
(* base's instance, tears it down, and `del clazz._instance` raises        *)
(* AttributeError.                                                         *)
(***************************************************************************)
C9_FinalizeAllIdempotent ==
    (\A f \in Factories : IsRegistered(f) => ~PendingYield(f))
    => \A keys \in VisitingOrders :
          LET r1 == FinalizeEach(Attrs, keys, 1) IN
          /\ r1.res = "ok"
          /\ r1.s = finalize_all(Attrs).s
          /\ \A f \in Factories : IsRegistered(f) => IsNone(InstanceAttr(r1.s, f))
          /\ \A again \in VisitingOrders :
                LET r2 == FinalizeEach(r1.s, again, 1) IN
                r2.res = "ok" /\ r2.s = r1.s

\* finalize_all has run over a built class, a built generator and a built function.
C9_Witness ==
    /\ last.op = "finalize_all" /\ last.res = "ok"
    /\ {FactoryDefs[f].kind : f \in last.built} = {"class", "generator", "factory"}
    /\ \A f \in last.built : ~Built(f) /\ torn[f] = 1

(***************************************************************************)
(* C10.  finalize_all invokes finalize on every entry that was built       *)
(* before the call, also when it raises.  Fails: the error of one finalize *)
(* leaves the loop, and the entries after it are not visited.              *)
(***************************************************************************)
C10_FinalizeAllVisitsEveryBuilt ==
    last.op = "finalize_all" => last.built \subseteq finalized

(***************************************************************************)
(* C11.  Teardown runs only for built entries: a finalize of an unbuilt    *)
(* entry (by finalize or by finalize_all) runs no teardown and leaves it   *)
(* unbuilt; a finalize of a built entry runs its teardown exactly once and *)
(* leaves it unbuilt, and a get_instance that then succeeds runs the       *)
(* factory once more.                                                      *)
(* Fails for a built generator with a second yield: its finalize raises    *)
(* before the cache is cleared (as in C20) and the entry stays built.      *)
(***************************************************************************)
C11_TeardownOnlyWhenBuilt ==
    /\ \A f \in Factories :
          (last.op = "finalize" /\ last.f = f)
          => IF IsNone(last.pre)
             THEN last.res = "ok" /\ torn[f] = 0 /\ ~Built(f)
             ELSE /\ torn[f] = (IF FactoryDefs[f].teardown THEN 1 ELSE 0)
                  /\ ~Built(f)
                  /\ LET r == get_instance(Attrs, f)
                     IN  r.res = "ok" => r.s.ran[f] = 1
    /\ last.op = "finalize_all"
       => \A f \in finalized \ last.built : torn[f] = 0 /\ ~Built(f)

(***************************************************************************)
(* C12.  Finalize does not cascade: a finalize of entry E leaves the cache *)
(* and the slots of every other factory as they were and runs no teardown  *)
(* but E's own.                                                            *)
(* Fails when E is a subclass of a registered class that is built while E  *)
(* is not: E's finalizer finds the base class's instance through          *)
(* attribute lookup and runs that instance's teardown.                     *)
(***************************************************************************)
C12_FinalizeDoesNotCascade ==
    [][last'.op = "finalize"
       => \A g \in Factories \ {last'.f} :
             /\ inst'[g] = inst[g]
             /\ slots'[g] = slots[g]
             /\ gen'[g] = gen[g]
             /\ torn'[g] = 0]_vars

\* The parameter names of factory f, in declaration order.
Params(f) == FactoryDefs[f].params

(***************************************************************************)
(* C13.  Lookup happens at resolution time: a registration constructs      *)
(* nothing and does not fail; a get_instance succeeds when, at the moment  *)
(* of the call, every name its construction resolves is registered and on  *)
(* no cycle, whatever the order of the registrations; and it raises        *)
(* NotFoundError when the entry is unbuilt and a declared parameter is     *)
(* unregistered while the parameters before it are resolvable.             *)
(* Fails after an earlier failed attempt: the busy flag that attempt left  *)
(* (as in C3) turns the call into a RecursiveInjectionError.               *)
(***************************************************************************)
C13_LookupAtResolutionTime ==
    /\ last.op = "register"
       => (last.res = "ok" /\ constructed = <<>> /\ \A g \in Factories : ran[g] = 0)
    /\ \A f \in Factories :
          (last.op = "get_instance" /\ last.f = f)
          => /\ Resolvable(FactoryDefs[f].name) => last.res = "ok"
             /\ (/\ IsNone(last.pre)
                 /\ \E k \in 1..Len(Params(f)) :
                       /\ ~Registered(Params(f)[k])
                       /\ \A i \in 1..(k - 1) : Resolvable(Params(f)[i]))
                => last.res = "NotFound"

\* The factories whose body the last operation ran.
Constructed == {constructed[i] : i \in 1..Len(constructed)}

(***************************************************************************)
(* C14.  Shared dependencies are built once: a get_instance that succeeds  *)
(* on a service of an acyclic graph runs no factory more than once, also   *)
(* when a dependency is reached along several paths; every object it       *)
(* builds was given the cached instances of its parameters; and on a       *)
(* service that is already built it runs the factory of no dependency.     *)
(* (That it does not run the service's own factory again is C1.)           *)
(* Fails when a shared dependency's factory returns a falsy value: the     *)
(* provider takes the cached value for no cache (as in C1) and runs the    *)
(* factory again for every dependent.                                      *)
(***************************************************************************)
C14_SharedDependencyBuiltOnce ==
    \A f \in Factories :
        (/\ last.op = "get_instance" /\ last.f = f /\ last.res = "ok"
         /\ Resolvable(FactoryDefs[f].name))
        => /\ \A g \in Factories : ran[g] <= 1
           /\ \A g \in Constructed :
                 Truthy(inst[g])
                 => \A i \in 1..Len(Params(g)) :
                       inst[g].args[i] = Ref(inst[inject_table[Params(g)[i]]])
           /\ ~IsNone(last.pre) => \A g \in Factories \ {f} : ran[g] = 0

\* The Injected descriptor that class f declares under name n.
Delegate(f, n) ==
    FactoryDefs[f].delegates[
        CHOOSE i \in 1..Len(FactoryDefs[f].delegates) : FactoryDefs[f].delegates[i].name = n]

(***************************************************************************)
(* C15.  Eager property: a get_instance that constructs the owner leaves   *)
(* in each eager slot the instance cached for the dependency, having run   *)
(* the dependency's factory at most once, read or not; and a read of an    *)
(* eager property of the owner the container hands out returns the value   *)
(* in the slot, without error and without running any factory.             *)
(* Fails when the initialisation of the owner's properties raised: the     *)
(* owner stays cached without its slots (as in C6) and the read is a       *)
(* KeyError.                                                               *)
(***************************************************************************)
C15_EagerProperty ==
    \A f \in Factories :
        /\ (last.op = "get_instance" /\ last.f = f /\ last.res = "ok" /\ f \in Constructed)
           => \A n \in DelegateNames(f) :
                 ~Delegate(f, n).lazy
                 => /\ slots[f][n] = InstanceSlot(InstanceAttr(Attrs, inject_table[n]))
                    /\ ran[inject_table[n]] <= 1
        /\ (last.op = "read" /\ last.f = f /\ ~Delegate(f, last.prop).lazy)
           => /\ last.res = "ok"
              /\ last.slot.k = "instance"
              /\ last.val = last.slot.val
              /\ constructed = <<>>
              /\ slots = [slots EXCEPT ![f][last.prop] = last.slot]

(***************************************************************************)
(* C16.  Lazy property: a get_instance that constructs the owner stores    *)
(* the dependency's factory in each lazy slot and does not run that        *)
(* factory (unless the owner's parameters or eager properties need it); a  *)
(* read of a lazy property of the owner the container hands out calls the  *)
(* stored factory: it returns that factory's instance, constructing it on  *)
(* that read when it is unbuilt (never built, or finalized since) and not  *)
(* when it is built, and never constructs the owner.                       *)
(* Fails when the initialisation of the owner's properties raised: the     *)
(* owner stays cached without its slots (as in C6) and the read is a       *)
(* KeyError.                                                               *)
(***************************************************************************)
C16_LazyProperty ==
    \A f \in Factories :
        /\ (last.op = "get_instance" /\ last.f = f /\ last.res = "ok" /\ f \in Constructed)
           => \A n \in DelegateNames(f) :
                 Delegate(f, n).lazy
                 => /\ slots[f][n] = FactorySlot(inject_table[n])
                    /\ n \notin DependencyClosure({FactoryDefs[f].name})
                       => inject_table[n] \notin Constructed
        /\ (last.op = "read" /\ last.f = f /\ Delegate(f, last.prop).lazy)
           => /\ last.slot.k = "factory"
              /\ Params(last.slot.of) = <<>> => last.res = "ok"
              /\ last.res = "ok" => last.val = InstanceAttr(Attrs, last.slot.of)
              /\ f \notin Constructed
              /\ IsNone(last.pre) => constructed = <<last.slot.of>>
              /\ Truthy(last.pre) => (constructed = <<>> /\ last.val = last.pre)

(***************************************************************************)
(* C17.  The inplace option.  Without it, a direct call of the decorated   *)
(* function or class runs the original once more, returns what that run    *)
(* produced and not the cached instance, and leaves the cache as it was.   *)
(* With it, a direct call made while the entry is built returns the        *)
(* cached instance and runs no factory.                                    *)
(* Fails with inplace set when the factory returned a falsy value: the     *)
(* call goes through the provider, which takes the cached value for no     *)
(* cache (as in C1) and runs the factory again.                            *)
(***************************************************************************)
C17_InplaceOption ==
    \A f \in Factories :
        (last.op = "call" /\ last.f = f)
        => IF FactoryDefs[f].inplace
           THEN ~IsNone(last.pre)
                => (last.res = "ok" /\ last.val = last.pre /\ constructed = <<>>
                    /\ InstanceAttr(Attrs, f) = last.pre)
           ELSE /\ last.res = "ok"
                /\ InstanceAttr(Attrs, f) = last.pre
                /\ FactoryDefs[f].kind # "generator"
                   => /\ constructed = <<f>>
                      /\ Truthy(last.val) => last.val # last.pre

\* The place of factory g's first run among those of the last operation.
FirstRun(g) == CHOOSE i \in 1..Len(constructed) :
                   constructed[i] = g /\ \A j \in 1..(i - 1) : constructed[j] # g

\* The factories registered under the names that resolving names S resolves.
FactoriesFor(S) == {inject_table[m] : m \in {x \in DependencyClosure(S) : Registered(x)}}

(***************************************************************************)
(* C18.  Parameters are resolved in declaration order.  When get_instance  *)
(* constructs f, the object receives at position i the instance cached for *)
(* parameter i; of two parameters whose factories both ran during the      *)
(* call, the earlier one's ran first (unless the earlier one depends on    *)
(* the later one, which is then built on its behalf); and when a parameter *)
(* is unregistered, only what the parameters before it need has been       *)
(* constructed when the call raises.                                       *)
(***************************************************************************)
C18_DeclaredParameterOrder ==
    \A f \in Factories :
        (last.op = "get_instance" /\ last.f = f)
        => /\ (last.res = "ok" /\ f \in Constructed /\ Truthy(inst[f]))
              => /\ Len(inst[f].args) = Len(Params(f))
                 /\ \A i \in 1..Len(Params(f)) :
                       inst[f].args[i] = Ref(InstanceAttr(Attrs, inject_table[Params(f)[i]]))
           /\ \A i, j \in 1..Len(Params(f)) :
                 (/\ i < j
                  /\ Registered(Params(f)[i]) /\ Registered(Params(f)[j])
                  /\ inject_table[Params(f)[i]] \in Constructed
                  /\ inject_table[Params(f)[j]] \in Constructed
                  /\ Params(f)[j] \notin DependencyClosure({Params(f)[i]}))
                 => FirstRun(inject_table[Params(f)[i]]) < FirstRun(inject_table[Params(f)[j]])
           /\ \A k \in 1..Len(Params(f)) :
                 (/\ IsNone(last.pre)
                  /\ ~Registered(Params(f)[k])
                  /\ \A i \in 1..(k - 1) : Registered(Params(f)[i]))
                 => /\ last.res # "ok"
                    /\ Constructed \subseteq FactoriesFor({Params(f)[i] : i \in 1..(k - 1)})

\* A call has built both parameters of a factory, neither for the other, and the
\* factory itself.
C18_Witness ==
    /\ last.op = "get_instance" /\ last.res = "ok"
    /\ Len(Params(last.f)) = 2
    /\ Len(constructed) = 3
    /\ constructed[1] = inject_table[Params(last.f)[1]]
    /\ constructed[2] = inject_table[Params(last.f)[2]]
    /\ constructed[3] = last.f
    /\ Truthy(inst[constructed[1]]) /\ Truthy(inst[constructed[2]])
    /\ inst[last.f].args = <<Ref(inst[constructed[1]]), Ref(inst[constructed[2]])>>

(***************************************************************************)
(* C19.  Last registration wins on every resolution path: a construction   *)
(* gives the object the instances of the factories now registered under    *)
(* its parameter names, and a read of a lazy property calls the factory    *)
(* now registered under the property's name.                               *)
(* Fails on the lazy read: the slot holds the factory that was registered  *)
(* when the owner was constructed, and a later registration under the      *)
(* name does not reach it.                                                 *)
(***************************************************************************)
C19_LastRegistrationWins ==
    \A f \in Factories :
        /\ (/\ last.op = "get_instance" /\ last.f = f /\ last.res = "ok"
            /\ f \in Constructed /\ Truthy(inst[f]))
           => \A i \in 1..Len(Params(f)) :
                 /\ inject_table[Params(f)[i]] \in Constructed
                    \/ Truthy(InstanceAttr(Attrs, inject_table[Params(f)[i]]))
                 /\ inst[f].args[i] = Ref(InstanceAttr(Attrs, inject_table[Params(f)[i]]))
        /\ (/\ last.op = "read" /\ last.f = f /\ last.slot.k = "factory"
            /\ \A n \in DelegateNames(f) : slots[f][n].k # "unset"
            /\ Registered(last.prop))
           => /\ last.slot.of = inject_table[last.prop]
              /\ last.res = "ok" => last.val = InstanceAttr(Attrs, inject_table[last.prop])

(***************************************************************************)
(* C20.  A finalize of a built generator entry ends with the cache         *)
(* cleared, also when it raises MultipleYieldsError: the entry is unbuilt, *)
(* no generator is kept, a get_instance that then succeeds runs the setup  *)
(* anew, and a finalize repeated at once does nothing.                     *)
(* Fails for a generator with a second yield: the error leaves the         *)
(* finalizer before the generator and the instance are cleared.            *)
(***************************************************************************)
C20_FinalizeClearsCacheOnError ==
    \A f \in Factories :
        (/\ last.op = "finalize" /\ last.f = f
         /\ FactoryDefs[f].kind = "generator" /\ ~IsNone(last.pre))
        => /\ ~Built(f)
           /\ gen[f] = 0
           /\ LET r == get_instance(Attrs, f)
              IN  r.res = "ok" => (r.s.ran[f] = 1 /\ r.s.gen[f] = 1)
           /\ LET r == finalize(Attrs, f)
              IN  r.res = "ok" /\ r.s.torn[f] = 0 /\ r.s.inst = inst /\ r.s.gen = gen

(***************************************************************************)
(* C22.  Entries are isolated from one another, also when one registered   *)
(* class is a subclass of another: a get_instance on a handle returns an   *)
(* object made by that handle's own factory, and a finalize of a handle    *)
(* raises no AttributeError and leaves the cache of every other entry as   *)
(* it was.                                                                 *)
(* Fails for a subclass: getattr(clazz, "_instance", None) finds the       *)
(* instance cached on the base class.                                      *)
(***************************************************************************)
C22_EntriesIsolated ==
    \A f \in Factories :
        IsRegistered(f)
        => /\ LET r == get_instance(Attrs, f)
              IN  (r.res = "ok" /\ Truthy(r.val)) => r.val.of = f
           /\ LET r == finalize(Attrs, f)
              IN  /\ r.res # "AttributeError"
                  /\ \A g \in Factories \ {f} : r.s.inst[g] = inst[g]

(***************************************************************************)
(* C24.  No rollback: when a get_instance fails with NotFoundError or      *)
(* RecursiveInjectionError, every service that was constructed during the  *)
(* attempt stays built and cached, no teardown has run for it, and no      *)
(* later get_instance that succeeds calls its factory again.               *)
(* Fails for a constructed dependency whose value is falsy: the provider   *)
(* tests the truth of the cache and constructs it anew.                    *)
(***************************************************************************)
C24_NoRollback ==
    \A f \in Factories :
        (last.op = "get_instance" /\ last.f = f /\ last.res \in InjectionErrors)
        => \A g \in Constructed :
              /\ Built(g)
              /\ torn[g] = 0
              /\ \A h \in Factories :
                    IsRegistered(h)
                    => LET r == get_instance(Attrs, h)
                       IN  r.res = "ok" => r.s.ran[g] = 0

\* Classes f and g, registered under two names, each declare an eager property that
\* names the other, and no cycle runs through parameters.
PropertyCycle(f, g) ==
    /\ IsRegistered(f) /\ IsRegistered(g)
    /\ FactoryDefs[f].kind = "class" /\ FactoryDefs[g].kind = "class"
    /\ FactoryDefs[f].name # FactoryDefs[g].name
    /\ FactoryDefs[g].name \in EagerNames(FactoryDefs[f].name)
    /\ FactoryDefs[f].name \in EagerNames(FactoryDefs[g].name)
    /\ Resolvable(FactoryDefs[f].name)

(***************************************************************************)
(* C23.  A reference cycle formed only through eager properties of two     *)
(* classes raises no RecursiveInjectionError: get_instance on either       *)
(* returns, both are built afterwards, and the property of each holds the  *)
(* cached instance of the other.                                           *)
(* Fails once an earlier construction of one of them has failed: its       *)
(* instance stays cached without its properties, and later calls return    *)
(* it as it is.                                                            *)
(***************************************************************************)
C23_PropertyCycleResolves ==
    \A f, g \in Factories :
        PropertyCycle(f, g)
        => LET r == get_instance(Attrs, f) IN
           /\ r.res = "ok"
           /\ ~IsNone(InstanceAttr(r.s, f)) /\ ~IsNone(InstanceAttr(r.s, g))
           /\ r.val = InstanceAttr(r.s, f)
           /\ r.s.slots[f][FactoryDefs[g].name] = InstanceSlot(InstanceAttr(r.s, g))
           /\ r.s.slots[g][FactoryDefs[f].name] = InstanceSlot(InstanceAttr(r.s, f))

(***************************************************************************)
(* Two threads in get_instance, with no lock.  The registry was filled at  *)
(* import time and holds plain factory functions only.  A thread runs      *)
(* provider() and _get_dependencies statement by statement; a call of a    *)
(* dependency's provider is a new frame on the thread's stack, and an      *)
(* exception leaves all the frames of the thread.                          *)
(*   test       `if not provider._instance`                                *)
(*   check      `if hasattr(factory_func, "_instance_is_being_created")`   *)
(*   mark       `factory_func._instance_is_being_created = True`           *)
(*   loop       `for par in signature.parameters`, one parameter a step    *)
(*   unmark     `del factory_func._instance_is_being_created`              *)
(*   construct  `provider._instance = factory_func(...)`                   *)
(*   return     `return provider._instance`                                *)
(* In this specification ran counts the runs of each factory body since    *)
(* the start.                                                              *)
(***************************************************************************)
MaxCalls == 2

ThreadPrograms ==
    {{"a8", "b7", "c3"},
     {"a8", "b7", "c1"},
     {"a5", "b7", "c3"},
     {"a3", "c3"}}

\* The table after the decorators of program P have run.
TableOf(P) ==
    [n \in Names |-> IF \E f \in P : FactoryDefs[f].name = n
                     THEN CHOOSE f \in P : FactoryDefs[f].name = n
                     ELSE NoEntry]

Frame(f) == [f |-> f, pc |-> "test", i |-> 1, deps |-> <<>>]

Top(t) == threads[t].stack[Len(threads[t].stack)]

At(t, pc) == threads[t].stack # <<>> /\ Top(t).pc = pc

SetTop(t, frame) == [threads EXCEPT ![t].stack[Len(threads[t].stack)] = frame]

\* An exception propagates to the caller of get_instance.
Unwind(t, error) ==
    [threads EXCEPT ![t].stack = <<>>, ![t].res = error, ![t].val = NoneVal]

\* Thread t is between finding f unbuilt and storing the instance it constructs.
Constructing(t, f) ==
    \E k \in 1..Len(threads[t].stack) :
        /\ threads[t].stack[k].f = f
        /\ threads[t].stack[k].pc \in {"check", "mark", "loop", "unmark", "construct"}

ThreadInit ==
    /\ program \in ThreadPrograms
    /\ inject_table = TableOf(program)
    /\ order = SelectSeq(<<"a", "b", "c">>, LAMBDA n : TableOf(program)[n] # NoEntry)
    /\ inst = [f \in Factories |-> IF FactoryDefs[f].kind = "class" THEN Absent ELSE NoneVal]
    /\ busy = [f \in Factories |-> FALSE]
    /\ gen = [f \in Factories |-> 0]
    /\ ran = [f \in Factories |-> 0]
    /\ slots = [f \in Factories |-> EmptySlots(f)]
    /\ torn = [f \in Factories |-> 0]
    /\ constructed = <<>>
    /\ finalized = {}
    /\ last = NoOp
    /\ failed = {}
    /\ threads = [t \in Threads |-> Idle]
    /\ raced = {}

registry == <<program, inject_table, order, gen, slots, torn, constructed, finalized,
              last, failed>>

\* handle.get_instance() is called by thread t.
Enter(t, f) ==
    /\ threads[t].stack = <<>>
    /\ threads[t].calls < MaxCalls
    /\ IsRegistered(f)
    /\ FactoryDefs[f].kind = "factory"
    /\ threads' = [threads EXCEPT ![t] = [stack |-> <<Frame(f)>>, f |-> f,
                                          res |-> "running", val |-> NoneVal,
                                          calls |-> @.calls + 1]]
    /\ UNCHANGED <<registry, inst, busy, ran, raced>>

TestCache(t) ==
    /\ At(t, "test")
    /\ IF ~Truthy(inst[Top(t).f])
       THEN /\ threads' = SetTop(t, [Top(t) EXCEPT !.pc = "check"])
            /\ raced' = IF \E u \in Threads \ {t} : Constructing(u, Top(t).f)
                        THEN raced \cup {Top(t).f} ELSE raced
       ELSE /\ threads' = SetTop(t, [Top(t) EXCEPT !.pc = "return"])
            /\ raced' = raced
    /\ UNCHANGED <<registry, inst, busy, ran>>

CheckBusy(t) ==
    /\ At(t, "check")
    /\ threads' = IF busy[Top(t).f] THEN Unwind(t, "Recursive")
                  ELSE SetTop(t, [Top(t) EXCEPT !.pc = "mark"])
    /\ UNCHANGED <<registry, inst, busy, ran, raced>>

SetBusy(t) ==
    /\ At(t, "mark")
    /\ busy' = [busy EXCEPT ![Top(t).f] = TRUE]
    /\ threads' = SetTop(t, [Top(t) EXCEPT !.pc = "loop"])
    /\ UNCHANGED <<registry, inst, ran, raced>>

\* One turn of the loop: Injector.get, then the call of the dependency's provider.
NextParameter(t) ==
    /\ At(t, "loop")
    /\ threads' =
         IF Top(t).i > Len(FactoryDefs[Top(t).f].params)
         THEN SetTop(t, [Top(t) EXCEPT !.pc = "unmark"])
         ELSE IF ~Registered(FactoryDefs[Top(t).f].params[Top(t).i])
         THEN Unwind(t, "NotFound")
         ELSE [threads EXCEPT ![t].stack =
                  Append(@, Frame(inject_table[FactoryDefs[Top(t).f].params[Top(t).i]]))]
    /\ UNCHANGED <<registry, inst, busy, ran, raced>>

\* del of an attribute another thread has deleted already is an AttributeError.
DelBusy(t) ==
    /\ At(t, "unmark")
    /\ IF busy[Top(t).f]
       THEN /\ busy' = [busy EXCEPT ![Top(t).f] = FALSE]
            /\ threads' = SetTop(t, [Top(t) EXCEPT !.pc = "construct"])
       ELSE /\ busy' = busy
            /\ threads' = Unwind(t, "AttributeError")
    /\ UNCHANGED <<registry, inst, ran, raced>>

CallFactory(t) ==
    /\ At(t, "construct")
    /\ inst' = [inst EXCEPT ![Top(t).f] =
                  CASE FactoryDefs[Top(t).f].ret = "obj"
                          -> Obj(Top(t).f, ran[Top(t).f] + 1, Top(t).deps)
                    [] FactoryDefs[Top(t).f].ret = "zero" -> ZeroVal
                    [] OTHER -> NoneVal]
    /\ ran' = [ran EXCEPT ![Top(t).f] = @ + 1]
    /\ threads' = SetTop(t, [Top(t) EXCEPT !.pc = "return"])
    /\ UNCHANGED <<registry, busy, raced>>

\* The return reads the attribute again: the value another thread may have stored.
ReturnInstance(t) ==
    /\ At(t, "return")
    /\ threads' =
         IF Len(threads[t].stack) = 1
         THEN [threads EXCEPT ![t].stack = <<>>, ![t].res = "ok",
                              ![t].val = inst[Top(t).f]]
         ELSE [threads EXCEPT ![t].stack =
                  [k \in 1..(Len(@) - 1) |->
                      IF k = Len(@) - 1
                      THEN [@[k] EXCEPT !.deps = Append(@, inst[Top(t).f]), !.i = @ + 1]
                      ELSE @[k]]]
    /\ UNCHANGED <<registry, inst, busy, ran, raced>>

ThreadNext ==
    \E t \in Threads :
        \/ \E f \in Factories : Enter(t, f)
        \/ TestCache(t)
        \/ CheckBusy(t)
        \/ SetBusy(t)
        \/ NextParameter(t)
        \/ DelBusy(t)
        \/ CallFactory(t)
        \/ ReturnInstance(t)

ThreadSpec == ThreadInit /\ [][ThreadNext]_vars

(***************************************************************************)
(* C21.  A factory body runs twice for one service, and two threads are    *)
(* handed different objects for it, only when two threads found the entry  *)
(* unbuilt at the same time.                                               *)
(* Fails for a factory whose value is falsy: a call made after another has *)
(* returned finds the cache falsy and runs the factory again, with no      *)
(* concurrency involved.                                                   *)
(***************************************************************************)
C21_TwoInstancesOnlyByRace ==
    \A f \in Factories : ran[f] > 1 => f \in raced

\* The race: each thread has made one call on the same handle, both calls have
\* returned, the factory body has run twice and the threads hold different objects.
C21_Witness ==
    /\ threads[1].res = "ok" /\ threads[2].res = "ok"
    /\ threads[1].f = threads[2].f
    /\ threads[1].calls = 1 /\ threads[2].calls = 1
    /\ Truthy(threads[1].val) /\ Truthy(threads[2].val)
    /\ threads[1].val # threads[2].val
    /\ ran[threads[1].f] = 2
    /\ threads[1].f \in raced

====
